---- MODULE Spec2Model ----
(***************************************************************************)
(* Model of the DX12 single pendulum demo (PendulumDemo.cpp,               *)
(* FrameBuffer.h): the ring of frame buffers and its fence, the per-tick   *)
(* constant-buffer updates, the five recorded render passes, and a GPU     *)
(* that consumes the command queue in FIFO order and rasterises one        *)
(* representative pixel.                                                   *)
(*                                                                         *)
(* Floats are fixed-point integers with Scale units per 1.0.               *)
(***************************************************************************)
EXTENDS Integers, Sequences, FiniteSets, TLC

\* ------------------------------------------------------------------ bounds
MaxFrames == 4          \* ticks (Update+Draw pairs) explored
MaxDepth == 2           \* depth values 0..MaxDepth-1 a fragment can have; MaxDepth is the cleared depth (1.0)
MaxFragsPerDraw == 1    \* fragments one draw call can put on the pixel
MaxInitFence == 1       \* largest fence value the start-up flushes may have left
MaxMouse == 4000        \* largest mouse coordinate

\* ------------------------------------------------------- program constants
gNumFrameBuffers == 3
Scale == 10000          \* fixed-point units per 1.0f
gravConst == 98000      \* 9.8
wLength == 30000        \* 3.0f
Pi == 31416             \* MathHelper::Pi

Slots == 0 .. (gNumFrameBuffers - 1)

\* ----------------------------------------------------- fixed-point floats
\* a*b/Scale without leaving 32 bits (|a| < 200000)
MulFx(a, b) == a * (b \div Scale) + (a * (b % Scale)) \div Scale

DivFx(a, b) == (a * Scale) \div b

HalfPi == Pi \div 2

TwoPi == 2 * Pi

Abs(x) == IF x < 0 THEN 0 - x ELSE x

\* argument reduced to [-Pi, Pi)
ReduceAngle(x) == ((x + Pi) % TwoPi) - Pi

SinTaylor(x) ==
    LET x2 == MulFx(x, x)
        x3 == MulFx(x2, x)
        x5 == MulFx(x3, x2)
        x7 == MulFx(x5, x2)
        x9 == MulFx(x7, x2)
    IN  x - (x3 \div 6) + (x5 \div 120) - (x7 \div 5040) + (x9 \div 362880)

CosTaylor(x) ==
    LET x2 == MulFx(x, x)
        x4 == MulFx(x2, x2)
        x6 == MulFx(x4, x2)
        x8 == MulFx(x6, x2)
    IN  Scale - (x2 \div 2) + (x4 \div 24) - (x6 \div 720) + (x8 \div 40320)

\* sinf
Sinf(x) ==
    LET r == ReduceAngle(x)
    IN  IF r > HalfPi THEN SinTaylor(Pi - r)
        ELSE IF r < 0 - HalfPi THEN 0 - SinTaylor(Pi + r)
        ELSE IF r < 0 THEN 0 - SinTaylor(0 - r)
        ELSE SinTaylor(r)

\* cosf
Cosf(x) ==
    LET r == Abs(ReduceAngle(x))
    IN  IF r > HalfPi THEN 0 - CosTaylor(Pi - r) ELSE CosTaylor(r)

\* ------------------------------------------------------------ 4x4 matrices
\* row-major, row vectors (DirectXMath convention): M[r][c]
Idx4 == 1 .. 4

Identity4x4 ==
    << <<Scale, 0, 0, 0>>, <<0, Scale, 0, 0>>, <<0, 0, Scale, 0>>, <<0, 0, 0, Scale>> >>

ZeroMatrix ==
    << <<0, 0, 0, 0>>, <<0, 0, 0, 0>>, <<0, 0, 0, 0>>, <<0, 0, 0, 0>> >>

MatMul(A, B) ==
    [r \in Idx4 |-> [c \in Idx4 |->
        MulFx(A[r][1], B[1][c]) + MulFx(A[r][2], B[2][c])
        + MulFx(A[r][3], B[3][c]) + MulFx(A[r][4], B[4][c])]]

XMMatrixTranspose(A) == [r \in Idx4 |-> [c \in Idx4 |-> A[c][r]]]

XMMatrixTranslation(x, y, z) ==
    << <<Scale, 0, 0, 0>>, <<0, Scale, 0, 0>>, <<0, 0, Scale, 0>>, <<x, y, z, Scale>> >>

XMMatrixRotationZ(a) ==
    << <<Cosf(a), Sinf(a), 0, 0>>, <<0 - Sinf(a), Cosf(a), 0, 0>>,
       <<0, 0, Scale, 0>>, <<0, 0, 0, Scale>> >>

VecScale(k, v) == [c \in Idx4 |-> MulFx(k, v[c])]

VecAdd(u, v) == [c \in Idx4 |-> u[c] + v[c]]

VecNeg(v) == [c \in Idx4 |-> 0 - v[c]]

Dot4(u, v) == MulFx(u[1], v[1]) + MulFx(u[2], v[2]) + MulFx(u[3], v[3]) + MulFx(u[4], v[4])

\* mutant: the projection onto the plane in place of the reflection across it
XMMatrixReflect_Projection(P) ==
    LET S == <<0 - P[1], 0 - P[2], 0 - P[3], 0>>
    IN  [r \in Idx4 |-> VecAdd(VecScale(P[r], S), Identity4x4[r])]

\* XMMatrixReflect for a plane given with a unit normal (both planes used are)
XMMatrixReflect(P) ==
    LET S == <<0 - 2 * P[1], 0 - 2 * P[2], 0 - 2 * P[3], 0>>
    IN  [r \in Idx4 |-> VecAdd(VecScale(P[r], S), Identity4x4[r])]

\* XMMatrixShadow for a plane given with a unit normal
XMMatrixShadow(ShadowPlane, LightPosition) ==
    LET dot == Dot4(ShadowPlane, LightPosition)
        P == VecNeg(ShadowPlane)
    IN  [r \in Idx4 |->
            VecAdd(VecScale(P[r], LightPosition), [c \in Idx4 |-> IF c = r THEN dot ELSE 0])]

\* XMVector3TransformNormal: rows 1..3 only, w untouched
XMVector3TransformNormal(v, M) ==
    [c \in 1 .. 3 |-> MulFx(v[1], M[1][c]) + MulFx(v[2], M[2][c]) + MulFx(v[3], M[3][c])]

\* ------------------------------------------------------------- materials
\* SetMaterials: name -> constant-buffer index and properties
MaterialNames == {"bricks", "grassfloor", "glassmirror", "whitesurface", "shadow"}

MatCBIndex ==
    [bricks |-> 0, grassfloor |-> 1, glassmirror |-> 2, whitesurface |-> 3, shadow |-> 4]

MaterialProps ==
    [bricks |-> [DiffuseAlbedo |-> <<10000, 10000, 10000, 10000>>,
                 FresnelR0 |-> <<500, 500, 500>>, Roughness |-> 2500],
     grassfloor |-> [DiffuseAlbedo |-> <<10000, 10000, 10000, 10000>>,
                     FresnelR0 |-> <<700, 700, 700>>, Roughness |-> 3000],
     glassmirror |-> [DiffuseAlbedo |-> <<10000, 10000, 10000, 3000>>,
                      FresnelR0 |-> <<1000, 1000, 1000>>, Roughness |-> 5000],
     whitesurface |-> [DiffuseAlbedo |-> <<10000, 10000, 10000, 10000>>,
                       FresnelR0 |-> <<500, 500, 500>>, Roughness |-> 3000],
     shadow |-> [DiffuseAlbedo |-> <<0, 0, 0, 5000>>,
                 FresnelR0 |-> <<10, 10, 10>>, Roughness |-> 0]]

\* the MaterialConstants UpdateMaterialCBs builds for one material (MatTransform
\* is the identity for every material and is left out of the entry)
MaterialConstantsOf(m) ==
    [DiffuseAlbedo |-> MaterialProps[m].DiffuseAlbedo,
     FresnelR0 |-> MaterialProps[m].FresnelR0,
     Roughness |-> MaterialProps[m].Roughness]

\* Material::NumFramesDirty of a new Material (the struct is declared in
\* d3dUtil.h): a new material is dirty for every slot of the ring
InitialNumFramesDirty == gNumFrameBuffers

\* upload-heap memory no CopyData has written yet
UnwrittenMaterial ==
    [DiffuseAlbedo |-> <<0, 0, 0, 0>>, FresnelR0 |-> <<0, 0, 0>>, Roughness |-> 0]

\* ---------------------------------------------------------- render items
\* SetRenderingItems: mAllRitems in push_back order
mAllRitems ==
    <<"floor", "wall", "mirror",
      "ceiling", "reflectedCeiling", "shadowedCeiling",
      "wire", "reflectedWire", "shadowedWire",
      "ball", "reflectedBall", "shadowedBall">>

ItemNames == {mAllRitems[i] : i \in 1 .. Len(mAllRitems)}

\* mutant: the shadowed ball, copied from the ball item, left with the index
\* of the reflected ball
ObjCBIndex_Duplicate ==
    [floor |-> 0, wall |-> 1, mirror |-> 2,
     ceiling |-> 3, reflectedCeiling |-> 4, shadowedCeiling |-> 5,
     wire |-> 6, reflectedWire |-> 7, shadowedWire |-> 8,
     ball |-> 9, reflectedBall |-> 10, shadowedBall |-> 10]

ObjCBIndex ==
    [floor |-> 0, wall |-> 1, mirror |-> 2,
     ceiling |-> 3, reflectedCeiling |-> 4, shadowedCeiling |-> 5,
     wire |-> 6, reflectedWire |-> 7, shadowedWire |-> 8,
     ball |-> 9, reflectedBall |-> 10, shadowedBall |-> 11]

ItemMat ==
    [floor |-> "grassfloor", wall |-> "bricks", mirror |-> "glassmirror",
     ceiling |-> "grassfloor", reflectedCeiling |-> "grassfloor", shadowedCeiling |-> "shadow",
     wire |-> "whitesurface", reflectedWire |-> "whitesurface", shadowedWire |-> "shadow",
     ball |-> "whitesurface", reflectedBall |-> "whitesurface", shadowedBall |-> "shadow"]

\* World of every item as SetRenderingItems leaves it (the reflected and shadowed
\* items are struct copies of their base item)
CeilingWorld == XMMatrixTranslation(0, 60000, 0 - 50000)

InitWorld ==
    [floor |-> Identity4x4, wall |-> Identity4x4, mirror |-> Identity4x4,
     ceiling |-> CeilingWorld, reflectedCeiling |-> CeilingWorld, shadowedCeiling |-> CeilingWorld,
     wire |-> Identity4x4, reflectedWire |-> Identity4x4, shadowedWire |-> Identity4x4,
     ball |-> Identity4x4, reflectedBall |-> Identity4x4, shadowedBall |-> Identity4x4]

mWireRenderItem == <<"wire", "reflectedWire", "shadowedWire">>

mBallRenderItem == <<"ball", "reflectedBall", "shadowedBall">>

mRitemLayer ==
    [Opaque |-> <<"floor", "wall", "ceiling", "wire", "ball">>,
     Mirrors |-> <<"mirror">>,
     Reflected |-> <<"reflectedCeiling", "reflectedWire", "reflectedBall">>,
     Transparent |-> <<"mirror">>,
     Shadow |-> <<"shadowedCeiling", "shadowedWire", "shadowedBall">>]

UnwrittenObject == [World |-> ZeroMatrix]

\* ----------------------------------------------------------------- lights
\* Light::Direction before UpdateCommonCB has run once
DefaultLightDirection == <<0, 0 - Scale, 0>>

\* the three directions UpdateCommonCB stores
SceneLightDirections == << <<5774, 0 - 7074, 5774>>, <<0 - 5774, 0 - 5774, 5774>>, <<0, 0 - 7070, 0 - 7070>> >>

UnwrittenCommon ==
    [Lights |-> << <<0, 0, 0>>, <<0, 0, 0>>, <<0, 0, 0>> >>, CameraPosW |-> <<0, 0, 0>>]

\* ------------------------------------------------------------------ inputs
DeltaTimes == {100}           \* gt.DeltaTime(): 0.01 s

InheritValues == {0, 60}      \* pending angle override, degrees

\* step sizes for EulerUpdate on its own: 0, 0.01 s, 1/60 s, 0.1 s, 1 s
EulerSteps == {0, 100, 167, 1000, 10000}

\* ------------------------------------------------- pipeline state objects
\* SetPSOs: what each pipeline state does to a fragment. All five have the
\* depth test enabled with D3D12_COMPARISON_FUNC_LESS.
\* mutant: the shadow pass without its stencil test
ShadowPso_NoStencilTest ==
    [DepthWrite |-> TRUE, StencilEnable |-> FALSE, StencilFunc |-> "ALWAYS",
     StencilPassOp |-> "KEEP", ColorWrite |-> TRUE, BlendEnable |-> TRUE]

\* shadowDSS with the blend state of the transparent PSO (lines 1036-1057)
ShadowPso ==
    [DepthWrite |-> TRUE, StencilEnable |-> TRUE, StencilFunc |-> "EQUAL",
     StencilPassOp |-> "INCR", ColorWrite |-> TRUE, BlendEnable |-> TRUE]

mPSOs ==
    [opaque |->
        [DepthWrite |-> TRUE, StencilEnable |-> FALSE, StencilFunc |-> "ALWAYS",
         StencilPassOp |-> "KEEP", ColorWrite |-> TRUE, BlendEnable |-> FALSE],
     transparent |->
        [DepthWrite |-> TRUE, StencilEnable |-> FALSE, StencilFunc |-> "ALWAYS",
         StencilPassOp |-> "KEEP", ColorWrite |-> TRUE, BlendEnable |-> TRUE],
     markStencilMirror |->
        [DepthWrite |-> FALSE, StencilEnable |-> TRUE, StencilFunc |-> "ALWAYS",
         StencilPassOp |-> "REPLACE", ColorWrite |-> FALSE, BlendEnable |-> FALSE],
     drawStencilReflections |->
        [DepthWrite |-> TRUE, StencilEnable |-> TRUE, StencilFunc |-> "EQUAL",
         StencilPassOp |-> "KEEP", ColorWrite |-> TRUE, BlendEnable |-> FALSE],
     shadow |-> ShadowPso]

\* ------------------------------------------------------------ rasteriser
\* The pixel: depth, 8-bit stencil, colour as the layer that last wrote it
\* opaquely followed by the layers blended on top, the number of Shadow
\* fragments that arrived since the last clear, and whether a Mirrors fragment
\* has passed its tests since the last clear.
ClearedPixel ==
    [depth |-> MaxDepth, stencil |-> 0, color |-> <<"clear">>, shadowFrags |-> 0,
     mirrorMarked |-> FALSE]

StencilTest(func, ref, value) ==
    CASE func = "ALWAYS" -> TRUE
      [] func = "EQUAL" -> ref = value

\* D3D12_STENCIL_OP_KEEP / REPLACE / INCR (INCR wraps at 8 bits)
StencilOp(op, ref, value) ==
    CASE op = "KEEP" -> value
      [] op = "REPLACE" -> ref
      [] op = "INCR" -> (value + 1) % 256

\* output merger for one fragment at depth d of a draw recorded with state cmd
ProcessFragment(px, cmd, d) ==
    LET pso == mPSOs[cmd.pso]
        counted == [px EXCEPT !.shadowFrags =
                        IF cmd.layer = "Shadow" THEN @ + 1 ELSE @]
        stencilPass == (~pso.StencilEnable) \/ StencilTest(pso.StencilFunc, cmd.stencilRef, px.stencil)
        depthPass == d < px.depth
    IN  IF ~stencilPass THEN counted          \* StencilFailOp = KEEP
        ELSE IF ~depthPass THEN counted       \* StencilDepthFailOp = KEEP
        ELSE [counted EXCEPT
                !.mirrorMarked = IF cmd.layer = "Mirrors" THEN TRUE ELSE @,
                !.stencil = IF pso.StencilEnable
                            THEN StencilOp(pso.StencilPassOp, cmd.stencilRef, @) ELSE @,
                !.depth = IF pso.DepthWrite THEN d ELSE @,
                !.color = IF ~pso.ColorWrite THEN @
                          ELSE IF pso.BlendEnable THEN Append(@, cmd.layer)
                          ELSE <<cmd.layer>>]

RECURSIVE ProcessFragments(_, _, _)
ProcessFragments(px, cmd, frags) ==
    IF frags = <<>> THEN px
    ELSE ProcessFragments(ProcessFragment(px, cmd, Head(frags)), cmd, Tail(frags))

\* what one draw call can put on the pixel: up to MaxFragsPerDraw fragments
FragmentSeqs == UNION {[1 .. n -> 0 .. (MaxDepth - 1)] : n \in 0 .. MaxFragsPerDraw}

\* ------------------------------------------------------ command recording
\* state of mCommandList right after Reset(alloc, mPSOs["opaque"]): stencil
\* reference 0, no root constant buffer bound
ResetState == [pso |-> "opaque", stencilRef |-> 0, commonCB |-> <<0 - 1, 0 - 1>>]

ClearCmd(op) ==
    [op |-> op, layer |-> "none", item |-> "none", pso |-> "opaque", stencilRef |-> 0,
     commonCB |-> <<0 - 1, 0 - 1>>, objCB |-> <<0 - 1, 0 - 1>>, matCB |-> <<0 - 1, 0 - 1>>]

\* DrawRenderingItems: one DrawIndexedInstanced per item of the layer, reading
\* the current frame buffer's object and material constants
DrawRenderingItems(st, layer, slot) ==
    [i \in 1 .. Len(mRitemLayer[layer]) |->
        LET ri == mRitemLayer[layer][i]
        IN  [op |-> "Draw", layer |-> layer, item |-> ri, pso |-> st.pso,
             stencilRef |-> st.stencilRef, commonCB |-> st.commonCB,
             objCB |-> <<slot, ObjCBIndex[ri]>>,
             matCB |-> <<slot, MatCBIndex[ItemMat[ri]]>>]]

\* Draw lines 326-328
PassOpaque(st, slot) ==
    LET s1 == [st EXCEPT !.commonCB = <<slot, 0>>]
    IN  [st |-> s1, cmds |-> DrawRenderingItems(s1, "Opaque", slot)]

\* mutant: the mirror marked with the stencil reference left at 0
PassMarkMirror_RefZero(st, slot) ==
    LET s1 == [st EXCEPT !.pso = "markStencilMirror"]
    IN  [st |-> s1, cmds |-> DrawRenderingItems(s1, "Mirrors", slot)]

\* Draw lines 331-333
PassMarkMirror(st, slot) ==
    LET s1 == [st EXCEPT !.stencilRef = 1, !.pso = "markStencilMirror"]
    IN  [st |-> s1, cmds |-> DrawRenderingItems(s1, "Mirrors", slot)]

\* Draw lines 337-339
PassReflection(st, slot) ==
    LET s1 == [st EXCEPT !.commonCB = <<slot, 1>>, !.pso = "drawStencilReflections"]
    IN  [st |-> s1, cmds |-> DrawRenderingItems(s1, "Reflected", slot)]

\* mutant: the primary common constants are not bound again
RestoreState_KeepsMirrored(st, slot) == [st EXCEPT !.stencilRef = 0]

\* mutant: the stencil reference is not set back
RestoreState_KeepsRef(st, slot) == [st EXCEPT !.commonCB = <<slot, 0>>]

\* Draw lines 342-343
RestoreState(st, slot) == [st EXCEPT !.commonCB = <<slot, 0>>, !.stencilRef = 0]

\* Draw lines 346-347
PassTransparent(st, slot) ==
    LET s1 == [st EXCEPT !.pso = "transparent"]
    IN  [st |-> s1, cmds |-> DrawRenderingItems(s1, "Transparent", slot)]

\* mutant: the shadow pass left out
PassShadow_Skipped(st, slot) == [st |-> st, cmds |-> <<>>]

\* Draw lines 350-351
PassShadow(st, slot) ==
    LET s1 == [st EXCEPT !.pso = "shadow"]
    IN  [st |-> s1, cmds |-> DrawRenderingItems(s1, "Shadow", slot)]

\* everything Draw records between Reset and Close, for the frame buffer slot
RecordFrame(slot) ==
    LET p1 == PassOpaque(ResetState, slot)
        p2 == PassMarkMirror(p1.st, slot)
        p3 == PassReflection(p2.st, slot)
        p4 == PassTransparent(RestoreState(p3.st, slot), slot)
        p5 == PassShadow(p4.st, slot)
    IN  <<ClearCmd("ClearRenderTargetView"), ClearCmd("ClearDepthStencilView")>>
        \o p1.cmds \o p2.cmds \o p3.cmds \o p4.cmds \o p5.cmds

\* --------------------------------------------------------------- pendulum
\* mutant: the torque taken without the sine of the angle
EulerUpdate_NoSine(pend, statusChange, inherit, dt) ==
    LET th0 == IF statusChange THEN (inherit * Pi) \div 180 ELSE pend.theta
        om0 == IF statusChange THEN 0 ELSE pend.omega
        om1 == om0 - MulFx(dt, DivFx(gravConst, wLength))
        th1 == th0 + MulFx(dt, om1)
    IN  [theta |-> th1, omega |-> om1]

\* mutant: the angle advanced with the angular speed of the step before
EulerUpdate_OldOmega(pend, statusChange, inherit, dt) ==
    LET th0 == IF statusChange THEN (inherit * Pi) \div 180 ELSE pend.theta
        om0 == IF statusChange THEN 0 ELSE pend.omega
        om1 == om0 - MulFx(MulFx(dt, DivFx(gravConst, wLength)), Sinf(th0))
    IN  [theta |-> th0 + MulFx(dt, om0), omega |-> om1]

\* mutant: an override that replaces the angle and keeps the angular speed
EulerUpdate_OmegaKept(pend, statusChange, inherit, dt) ==
    LET th0 == IF statusChange THEN (inherit * Pi) \div 180 ELSE pend.theta
        om1 == pend.omega - MulFx(MulFx(dt, DivFx(gravConst, wLength)), Sinf(th0))
    IN  [theta |-> th0 + MulFx(dt, om1), omega |-> om1]

\* EulerUpdate: the pending override first, then omega, then theta with the
\* omega just computed
EulerUpdate(pend, statusChange, inherit, dt) ==
    LET th0 == IF statusChange THEN (inherit * Pi) \div 180 ELSE pend.theta
        om0 == IF statusChange THEN 0 ELSE pend.omega
        om1 == om0 - MulFx(MulFx(dt, DivFx(gravConst, wLength)), Sinf(th0))
        th1 == th0 + MulFx(dt, om1)
    IN  [theta |-> th1, omega |-> om1]

\* UpdateReflectedAndShadowed: the World matrices of the wire and ball items
\* and of their reflected and shadowed variants
UpdateReflectedAndShadowed(world, theta, lightDirection) ==
    LET wireWorld == MatMul(XMMatrixRotationZ(theta),
                        XMMatrixTranslation(0 + MulFx(wLength \div 2, Sinf(theta)),
                                            60000 - MulFx(wLength \div 2, Cosf(theta)),
                                            0 - 50000))
        mirrorPlane == <<0, 0, Scale, 0>>
        R == XMMatrixReflect(mirrorPlane)
        shadowPlane == <<0, Scale, 0, 0>>
        toMainLight == <<0 - lightDirection[1], 0 - lightDirection[2], 0 - lightDirection[3], 0>>
        S == XMMatrixShadow(shadowPlane, toMainLight)
        shadowOffSetY == XMMatrixTranslation(0, 10, 0)
        ballWorld == MatMul(XMMatrixRotationZ(theta),
                        XMMatrixTranslation(0 + MulFx(wLength + 1000, Sinf(theta)),
                                            60000 - MulFx(wLength + 1000, Cosf(theta)),
                                            0 - 50000))
    IN  [world EXCEPT
            !.wire = wireWorld,
            !.reflectedWire = MatMul(wireWorld, R),
            !.shadowedWire = MatMul(MatMul(wireWorld, S), shadowOffSetY),
            !.ball = ballWorld,
            !.reflectedBall = MatMul(ballWorld, R),
            !.shadowedBall = MatMul(MatMul(ballWorld, S), shadowOffSetY)]

\* lines 491-495: the six pendulum items are re-armed
RearmedItems == {mWireRenderItem[i] : i \in 1 .. 3} \cup {mBallRenderItem[i] : i \in 1 .. 3}

\* mutant: the test against the ring depth instead of 0
ObjectNeedsFill_AboveDepth(fill) == fill > gNumFrameBuffers

\* UpdateObjectCBs line 442
ObjectNeedsFill(fill) == fill > 0

\* UpdateObjectCBs lines 439-453: no statement of the loop changes numFrameBufferFill
ObjectFillAfterWrite(fill) == fill

\* mutant: materials copied and counted down without the test
MaterialIsDirty_Always(n) == TRUE

\* UpdateMaterialCBs line 506
MaterialIsDirty(n) == n > 0

\* mutant: the material copied without its counter being decremented
MaterialDirtyAfterWrite_Kept(n) == n

\* UpdateMaterialCBs line 518
MaterialDirtyAfterWrite(n) == n - 1

\* the ObjectConstants of an item (TexTransform is the identity for every item
\* and is left out of the entry)
ObjectConstantsOf(world, item) == [World |-> XMMatrixTranspose(world[item])]

\* UpdateCamera lines 420-422: mCameraPos from the spherical coordinates
UpdateCamera(theta, phi, radius) ==
    LET rSinPhi == MulFx(Sinf(phi), radius)
    IN  <<MulFx(Cosf(theta), rSinPhi), MulFx(Cosf(phi), radius), MulFx(Sinf(theta), rSinPhi)>>

\* UpdateReflectedCommonCB: a copy of mCommonCB with the three light
\* directions reflected across the mirror plane
ReflectedCommon(common) ==
    LET R == XMMatrixReflect(<<0, 0, Scale, 0>>)
    IN  [common EXCEPT !.Lights = [i \in 1 .. 3 |-> XMVector3TransformNormal(common.Lights[i], R)]]

\* ------------------------------------------------------------------ fence
\* mutant: a cursor that does not advance
NextFrameBufferIndex_Stuck(i) == i

\* Update line 279
NextFrameBufferIndex(i) == (i + 1) % gNumFrameBuffers

\* mutant: the comparison off by one
MustWait_OffByOne(stamp, completed) == stamp # 0 /\ completed + 1 < stamp

\* mutant: a wait that lets the GPU fall two stamps behind
MustWait_TwoBehind(stamp, completed) == stamp # 0 /\ completed + 2 < stamp

\* mutant: a wait on unstamped slots too
MustWait_UnstampedToo(stamp, completed) == stamp = 0 \/ completed < stamp

\* mutant: the wait forgotten
MustWait_Never(stamp, completed) == FALSE

\* Update line 282
MustWait(stamp, completed) == stamp # 0 /\ completed < stamp

\* Draw line 369: ++mCurrentFence
NextFence(f) == f + 1

\* mutant: the stamp taken before the increment
StampedValue_Post(f) == f

\* Draw line 369: the value of the pre-increment expression, stored in the slot
StampedValue(f) == NextFence(f)

\* mutant: a Signal that always carries the value 0
SignalledValue_Zero(f) == 0

\* Draw line 371: the value handed to Signal, mCurrentFence after its increment
SignalledValue(f) == f

\* ----------------------------------------------------------------- camera
\* mutant: a clamp without its upper bound
Clamp_NoUpper(x, low, high) == IF x < low THEN low ELSE x

\* MathHelper::Clamp
Clamp(x, low, high) == IF x < low THEN low ELSE IF x > high THEN high ELSE x

\* XMConvertToRadians(0.25f * delta) for a delta in pixels
QuarterDegreesToRadians(delta) ==
    IF delta >= 0 THEN (delta * Pi) \div 720 ELSE 0 - (((0 - delta) * Pi) \div 720)

\* OnMouseMove lines 400, 402, 412
PhiMin == Pi \div 6
PhiMax == Pi \div 2 - 1000
ThetaMin == (7 * Pi) \div 6
ThetaMax == (11 * Pi) \div 6
RadiusMin == 15 * Scale
RadiusMax == 50 * Scale

MouseCoordinates == {0, 100, MaxMouse}

\* mLastMousePos has no initialiser: until OnMouseDown or OnMouseMove has
\* stored a position, a read of it yields any position
IndeterminatePoint == [assigned |-> FALSE, x |-> 0, y |-> 0]

PointsReadFrom(p) ==
    IF p.assigned THEN {p}
    ELSE {[assigned |-> TRUE, x |-> x, y |-> y] : x \in MouseCoordinates, y \in MouseCoordinates}

ButtonStates == SUBSET {"MK_LBUTTON", "MK_RBUTTON"}

\* ------------------------------------------------------------ application
\* the steps of Initialize in order
InitializeSteps ==
    <<"D3DApp::Initialize", "mCommandList->Reset", "PrepareTextures", "SetRootSignature",
      "SetDescriptorHeaps", "SetShadersAndInputLayout", "SetBackgroundGeometry",
      "SetPendulumGeometry", "SetMaterials", "SetRenderingItems", "SetFrameBuffers",
      "SetPSOs", "mCommandList->Close", "FlushCommandQueue">>

\* the steps of Initialize that make a checked call
CheckedSetupSteps ==
    {"D3DApp::Initialize", "mCommandList->Reset", "PrepareTextures", "SetRootSignature",
     "SetDescriptorHeaps", "SetShadersAndInputLayout", "SetBackgroundGeometry",
     "SetPendulumGeometry", "SetFrameBuffers", "SetPSOs", "mCommandList->Close",
     "FlushCommandQueue"}

\* the checked calls of a tick and where the CPU thread is when it makes them
CheckedTickCalls ==
    [wait |-> {"mFence->SetEventOnCompletion"},
     draw |-> {"cmdListAlloc->Reset", "mCommandList->Reset", "mCommandList->Close"},
     stamp |-> {"mSwapChain->Present"}]

\* ThrowIfFailed: a failed call throws, which leaves the function at once
PcAfterFailure(at) == "unwind"

\* FlushCommandQueue returns once the GPU has consumed everything queued
FlushCommandQueueReturns(queue) == queue = <<>>

\* mutant: the handler returns without a message
HandlerShowsMessage_Silent(failedCall) == FALSE

\* WinMain lines 180-184: the handler for DxException shows a MessageBox
HandlerShowsMessage(failedCall) == failedCall # "none"

\* ------------------------------------------------------------------ state
VARIABLES
    pc,                         \* where the CPU thread is inside the tick
    frame,                      \* number of Update calls so far
    mCurrentFrameBufferIndex,
    mCurrentFrameBuffer,        \* slot pointed at, -1 for nullptr
    Fence,                      \* FrameBuffer::Fence of every slot
    mCurrentFence,
    completedValue,             \* mFence->GetCompletedValue()
    mCommandQueue,              \* FIFO of command lists and signals not yet consumed
    mCommandList,               \* what the command list holds
    ObjectCB, MaterialCB, CommonCB,   \* the upload buffers of every slot
    World,
    numFrameBufferFill,
    NumFramesDirty,
    mSimplePend,
    mStatusChange, inheritValue1,
    mCommonCB, mReflectedCommonCB,
    pixel,                      \* one pixel of the render target and depth-stencil buffer
    changedAt,                  \* history: the tick on which an item's World last changed (0: never since construction)
    objCopies, matCopies,       \* history: CopyData calls made so far for every item and material
    mTheta, mPhi, mRadius,      \* camera position in spherical coordinates
    mLastMousePos,
    setupStep,                  \* how many steps of Initialize have completed
    caught,                     \* the checked call whose failure was thrown, "none" if none
    messageShown                \* the MessageBox of WinMain's handler has been shown

vars ==
    <<pc, frame, mCurrentFrameBufferIndex, mCurrentFrameBuffer, Fence, mCurrentFence,
      completedValue, mCommandQueue, mCommandList, ObjectCB, MaterialCB, CommonCB,
      World, numFrameBufferFill, NumFramesDirty, mSimplePend, mStatusChange,
      inheritValue1, mCommonCB, mReflectedCommonCB, pixel, changedAt, objCopies, matCopies,
      mTheta, mPhi, mRadius, mLastMousePos, setupStep, caught, messageShown>>

cpuVars ==
    <<pc, frame, mCurrentFrameBufferIndex, mCurrentFrameBuffer, Fence, mCurrentFence,
      mCommandList, ObjectCB, MaterialCB, CommonCB,
      World, numFrameBufferFill, NumFramesDirty, mSimplePend, mStatusChange,
      inheritValue1, mCommonCB, mReflectedCommonCB, changedAt, objCopies, matCopies,
      mTheta, mPhi, mRadius, mLastMousePos, setupStep, caught, messageShown>>

bufferVars == <<ObjectCB, MaterialCB, CommonCB>>

historyVars == <<changedAt, objCopies, matCopies>>

cameraVars == <<mTheta, mPhi, mRadius, mLastMousePos>>

appVars == <<setupStep, caught, messageShown>>

sceneVars ==
    <<World, numFrameBufferFill, NumFramesDirty, mSimplePend, mStatusChange,
      inheritValue1, mCommonCB, mReflectedCommonCB>>

\* the state when Run starts: constructor, Initialize (whose flushes leave the
\* queue empty and the fence completed)
InitialData ==
    /\ frame = 0
    /\ mCurrentFrameBufferIndex = 0
    /\ mCurrentFrameBuffer = 0 - 1
    /\ Fence = [s \in Slots |-> 0]
    /\ mCurrentFence \in 0 .. MaxInitFence
    /\ completedValue = mCurrentFence
    /\ mCommandQueue = <<>>
    /\ mCommandList = <<>>
    /\ ObjectCB = [s \in Slots |-> [i \in 0 .. (Len(mAllRitems) - 1) |-> UnwrittenObject]]
    /\ MaterialCB = [s \in Slots |-> [i \in 0 .. (Cardinality(MaterialNames) - 1) |-> UnwrittenMaterial]]
    /\ CommonCB = [s \in Slots |-> [i \in 0 .. 1 |-> UnwrittenCommon]]
    /\ World = InitWorld
    /\ numFrameBufferFill = [it \in ItemNames |-> gNumFrameBuffers]
    /\ NumFramesDirty = [m \in MaterialNames |-> InitialNumFramesDirty]
    /\ mSimplePend = [theta |-> 0, omega |-> 0]
    /\ mStatusChange = FALSE
    /\ inheritValue1 = 0
    /\ mCommonCB = [Lights |-> [i \in 1 .. 3 |-> DefaultLightDirection],
                    CameraPosW |-> <<0, 0, 0>>]
    /\ mReflectedCommonCB = [Lights |-> [i \in 1 .. 3 |-> DefaultLightDirection],
                             CameraPosW |-> <<0, 0, 0>>]
    /\ pixel = ClearedPixel
    /\ changedAt = [it \in ItemNames |-> 0]
    /\ objCopies = [it \in ItemNames |-> 0]
    /\ matCopies = [m \in MaterialNames |-> 0]
    /\ mTheta = (3 * Pi) \div 2
    /\ mPhi = (4 * Pi) \div 10
    /\ mRadius = 20 * Scale
    /\ mLastMousePos = IndeterminatePoint
    /\ caught = "none"
    /\ messageShown = FALSE

Init ==
    /\ pc = "idle"
    /\ setupStep = Len(InitializeSteps)
    /\ InitialData

\* ---------------------------------------------------------------- actions
\* the window procedure sets the status-change flag and the pending angle
StatusChange(v) ==
    /\ pc = "idle"
    /\ frame < MaxFrames
    /\ ~mStatusChange
    /\ mStatusChange' = TRUE
    /\ inheritValue1' = v
    /\ UNCHANGED <<pc, frame, mCurrentFrameBufferIndex, mCurrentFrameBuffer, Fence,
                   mCurrentFence, completedValue, mCommandQueue, mCommandList,
                   ObjectCB, MaterialCB, CommonCB, World, numFrameBufferFill,
                   NumFramesDirty, mSimplePend, mCommonCB, mReflectedCommonCB, pixel, appVars, cameraVars,
                   historyVars>>

\* Update lines 275-282: advance the cursor, look at the slot's fence
UpdateSelect ==
    /\ pc = "idle"
    /\ frame < MaxFrames
    /\ frame' = frame + 1
    /\ mCurrentFrameBufferIndex' = NextFrameBufferIndex(mCurrentFrameBufferIndex)
    /\ mCurrentFrameBuffer' = mCurrentFrameBufferIndex'
    /\ pc' = IF MustWait(Fence[mCurrentFrameBufferIndex'], completedValue)
             THEN "wait" ELSE "update"
    /\ UNCHANGED <<Fence, mCurrentFence, completedValue, mCommandQueue, mCommandList,
                   bufferVars, sceneVars, pixel, appVars, cameraVars, historyVars>>

\* Update lines 284-287: WaitForSingleObject returns once the fence has
\* reached the slot's stamp
UpdateWait ==
    /\ pc = "wait"
    /\ completedValue >= Fence[mCurrentFrameBuffer]
    /\ pc' = "update"
    /\ UNCHANGED <<frame, mCurrentFrameBufferIndex, mCurrentFrameBuffer, Fence,
                   mCurrentFence, completedValue, mCommandQueue, mCommandList,
                   bufferVars, sceneVars, pixel, appVars, cameraVars, historyVars>>

\* UpdateObjectCBs lines 436-437: EulerUpdate and UpdateReflectedAndShadowed,
\* which ends by re-arming the six pendulum items
UpdatePendulum(dt) ==
    /\ pc = "update"
    /\ LET pend == EulerUpdate(mSimplePend, mStatusChange, inheritValue1, dt)
           world == UpdateReflectedAndShadowed(World, pend.theta, mCommonCB.Lights[1])
       IN  /\ mSimplePend' = pend
           /\ mStatusChange' = FALSE
           /\ World' = world
           /\ changedAt' = [it \in ItemNames |->
                  IF world[it] # World[it] THEN frame ELSE changedAt[it]]
    /\ numFrameBufferFill' = [it \in ItemNames |->
           IF it \in RearmedItems THEN gNumFrameBuffers ELSE numFrameBufferFill[it]]
    /\ pc' = "fill"
    /\ UNCHANGED <<frame, mCurrentFrameBufferIndex, mCurrentFrameBuffer, Fence,
                   mCurrentFence, completedValue, mCommandQueue, mCommandList,
                   bufferVars, NumFramesDirty, inheritValue1, mCommonCB,
                   mReflectedCommonCB, pixel, appVars, cameraVars, objCopies, matCopies>>

\* UpdateObjectCBs lines 439-453 (the CopyData loop), then Update lines 291-293:
\* UpdateMaterialCBs, UpdateCommonCB, UpdateReflectedCommonCB
UpdateCBs ==
    /\ pc = "fill"
    /\ LET cur == mCurrentFrameBuffer
           common == [Lights |-> SceneLightDirections,
                      CameraPosW |-> UpdateCamera(mTheta, mPhi, mRadius)]
           reflected == ReflectedCommon(common)
       IN  /\ ObjectCB' = [ObjectCB EXCEPT ![cur] =
                  [i \in DOMAIN @ |->
                      LET it == CHOOSE x \in ItemNames : ObjCBIndex[x] = i
                      IN  IF ObjectNeedsFill(numFrameBufferFill[it])
                          THEN ObjectConstantsOf(World, it) ELSE @[i]]]
           /\ numFrameBufferFill' = [it \in ItemNames |->
                  IF ObjectNeedsFill(numFrameBufferFill[it])
                  THEN ObjectFillAfterWrite(numFrameBufferFill[it])
                  ELSE numFrameBufferFill[it]]
           /\ objCopies' = [it \in ItemNames |->
                  IF ObjectNeedsFill(numFrameBufferFill[it])
                  THEN objCopies[it] + 1 ELSE objCopies[it]]
           /\ MaterialCB' = [MaterialCB EXCEPT ![cur] =
                  [i \in DOMAIN @ |->
                      LET m == CHOOSE x \in MaterialNames : MatCBIndex[x] = i
                      IN  IF MaterialIsDirty(NumFramesDirty[m])
                          THEN MaterialConstantsOf(m) ELSE @[i]]]
           /\ NumFramesDirty' = [m \in MaterialNames |->
                  IF MaterialIsDirty(NumFramesDirty[m])
                  THEN MaterialDirtyAfterWrite(NumFramesDirty[m]) ELSE NumFramesDirty[m]]
           /\ matCopies' = [m \in MaterialNames |->
                  IF MaterialIsDirty(NumFramesDirty[m])
                  THEN matCopies[m] + 1 ELSE matCopies[m]]
           /\ mCommonCB' = common
           /\ mReflectedCommonCB' = reflected
           /\ CommonCB' = [CommonCB EXCEPT ![cur] =
                  [i \in 0 .. 1 |-> IF i = 0 THEN common ELSE reflected]]
    /\ pc' = "draw"
    /\ UNCHANGED <<frame, mCurrentFrameBufferIndex, mCurrentFrameBuffer, Fence,
                   mCurrentFence, completedValue, mCommandQueue, mCommandList,
                   World, mSimplePend, mStatusChange, inheritValue1, pixel, appVars, cameraVars, changedAt>>

\* Draw lines 298-358: reset the slot's allocator and the command list, record
\* the frame, close the list
DrawRecord ==
    /\ pc = "draw"
    /\ mCommandList' = RecordFrame(mCurrentFrameBuffer)
    /\ pc' = "execute"
    /\ UNCHANGED <<frame, mCurrentFrameBufferIndex, mCurrentFrameBuffer, Fence,
                   mCurrentFence, completedValue, mCommandQueue,
                   bufferVars, sceneVars, pixel, appVars, cameraVars, historyVars>>

\* mutant: Draw going on to the stamp without ExecuteCommandLists
DrawExecute_NotSubmitted ==
    /\ pc = "execute"
    /\ pc' = "stamp"
    /\ UNCHANGED <<frame, mCurrentFrameBufferIndex, mCurrentFrameBuffer, Fence,
                   mCurrentFence, completedValue, mCommandQueue, mCommandList,
                   bufferVars, sceneVars, pixel, appVars, cameraVars, historyVars>>

\* Draw line 362: ExecuteCommandLists
DrawExecute ==
    /\ pc = "execute"
    /\ mCommandQueue' = Append(mCommandQueue,
            [kind |-> "list", slot |-> mCurrentFrameBuffer, cmds |-> mCommandList, value |-> 0])
    /\ pc' = "stamp"
    /\ UNCHANGED <<frame, mCurrentFrameBufferIndex, mCurrentFrameBuffer, Fence,
                   mCurrentFence, completedValue, mCommandList,
                   bufferVars, sceneVars, pixel, appVars, cameraVars, historyVars>>

\* Draw line 369: mCurrentFrameBuffer->Fence = ++mCurrentFence
DrawStamp ==
    /\ pc = "stamp"
    /\ mCurrentFence' = NextFence(mCurrentFence)
    /\ Fence' = [Fence EXCEPT ![mCurrentFrameBuffer] = StampedValue(mCurrentFence)]
    /\ pc' = "signal"
    /\ UNCHANGED <<frame, mCurrentFrameBufferIndex, mCurrentFrameBuffer,
                   completedValue, mCommandQueue, mCommandList,
                   bufferVars, sceneVars, pixel, appVars, cameraVars, historyVars>>

\* Draw line 371: mCommandQueue->Signal(mFence, mCurrentFence)
DrawSignal ==
    /\ pc = "signal"
    /\ mCommandQueue' = Append(mCommandQueue,
            [kind |-> "signal", slot |-> 0 - 1, cmds |-> <<>>,
             value |-> SignalledValue(mCurrentFence)])
    /\ pc' = "idle"
    /\ UNCHANGED <<frame, mCurrentFrameBufferIndex, mCurrentFrameBuffer, Fence,
                   mCurrentFence, completedValue, mCommandList,
                   bufferVars, sceneVars, pixel, appVars, cameraVars, historyVars>>

\* the queue after the GPU has consumed the first command of its head list
ConsumeCommand(q) ==
    IF Len(q[1].cmds) = 1 THEN Tail(q) ELSE [q EXCEPT ![1].cmds = Tail(@)]

\* the GPU executes a clear (Draw lines 312-313)
GpuClear ==
    /\ mCommandQueue # <<>>
    /\ mCommandQueue[1].kind = "list"
    /\ LET cmd == mCommandQueue[1].cmds[1]
       IN  /\ cmd.op # "Draw"
           /\ pixel' = IF cmd.op = "ClearRenderTargetView"
                       THEN [pixel EXCEPT !.color = <<"clear">>]
                       ELSE [pixel EXCEPT !.depth = MaxDepth, !.stencil = 0,
                                          !.shadowFrags = 0, !.mirrorMarked = FALSE]
    /\ mCommandQueue' = ConsumeCommand(mCommandQueue)
    /\ UNCHANGED <<cpuVars, completedValue>>

\* the GPU executes one recorded draw call
GpuDraw(frags) ==
    /\ mCommandQueue # <<>>
    /\ mCommandQueue[1].kind = "list"
    /\ LET cmd == mCommandQueue[1].cmds[1]
       IN  /\ cmd.op = "Draw"
           /\ pixel' = ProcessFragments(pixel, cmd, frags)
    /\ mCommandQueue' = ConsumeCommand(mCommandQueue)
    /\ UNCHANGED <<cpuVars, completedValue>>

\* the GPU reaches a Signal: the fence takes its value
GpuSignal ==
    /\ mCommandQueue # <<>>
    /\ mCommandQueue[1].kind = "signal"
    /\ completedValue' = mCommandQueue[1].value
    /\ mCommandQueue' = Tail(mCommandQueue)
    /\ UNCHANGED <<cpuVars, pixel>>

\* the GPU executes the command list at the head of the queue to its end
\* (what the list rasterises is followed command by command under RasterSpec)
GpuExecuteList ==
    /\ mCommandQueue # <<>>
    /\ mCommandQueue[1].kind = "list"
    /\ mCommandQueue' = Tail(mCommandQueue)
    /\ UNCHANGED <<cpuVars, completedValue, pixel>>

\* OnMouseDown: remember where the drag starts
OnMouseDown(x, y) ==
    /\ pc = "idle"
    /\ mLastMousePos' = [assigned |-> TRUE, x |-> x, y |-> y]
    /\ UNCHANGED <<pc, frame, mCurrentFrameBufferIndex, mCurrentFrameBuffer, Fence,
                   mCurrentFence, completedValue, mCommandQueue, mCommandList,
                   bufferVars, sceneVars, pixel, appVars, historyVars, mTheta, mPhi, mRadius>>

\* mutant: the right-button branch taken whether or not the left button is held
OnMouseMove_NoElse(btnState, x, y) ==
    /\ pc = "idle"
    /\ \E last \in PointsReadFrom(mLastMousePos) :
          /\ IF "MK_LBUTTON" \in btnState
             THEN /\ mTheta' = Clamp(mTheta + QuarterDegreesToRadians(x - last.x), ThetaMin, ThetaMax)
                  /\ mPhi' = Clamp(mPhi + QuarterDegreesToRadians(y - last.y), PhiMin, PhiMax)
             ELSE UNCHANGED <<mTheta, mPhi>>
          /\ IF "MK_RBUTTON" \in btnState
             THEN mRadius' = Clamp(mRadius + ((x - last.x) * Scale) \div 5
                                           - ((y - last.y) * Scale) \div 5,
                                   RadiusMin, RadiusMax)
             ELSE mRadius' = mRadius
    /\ mLastMousePos' = [assigned |-> TRUE, x |-> x, y |-> y]
    /\ UNCHANGED <<pc, frame, mCurrentFrameBufferIndex, mCurrentFrameBuffer, Fence,
                   mCurrentFence, completedValue, mCommandQueue, mCommandList,
                   bufferVars, sceneVars, pixel, appVars, historyVars>>

\* OnMouseMove: the left button orbits the camera, else the right button
\* changes its distance; the position is remembered in every case
OnMouseMove(btnState, x, y) ==
    /\ pc = "idle"
    /\ \E last \in PointsReadFrom(mLastMousePos) :
          IF "MK_LBUTTON" \in btnState
          THEN /\ mTheta' = Clamp(mTheta + QuarterDegreesToRadians(x - last.x), ThetaMin, ThetaMax)
               /\ mPhi' = Clamp(mPhi + QuarterDegreesToRadians(y - last.y), PhiMin, PhiMax)
               /\ mRadius' = mRadius
          ELSE IF "MK_RBUTTON" \in btnState
          THEN /\ mRadius' = Clamp(mRadius + ((x - last.x) * Scale) \div 5
                                           - ((y - last.y) * Scale) \div 5,
                                   RadiusMin, RadiusMax)
               /\ UNCHANGED <<mTheta, mPhi>>
          ELSE UNCHANGED <<mTheta, mPhi, mRadius>>
    /\ mLastMousePos' = [assigned |-> TRUE, x |-> x, y |-> y]
    /\ UNCHANGED <<pc, frame, mCurrentFrameBufferIndex, mCurrentFrameBuffer, Fence,
                   mCurrentFence, completedValue, mCommandQueue, mCommandList,
                   bufferVars, sceneVars, pixel, appVars, historyVars>>

\* the CPU thread and the window procedure, with the GPU consuming the queue
\* one list or signal at a time
Next ==
    \/ \E v \in InheritValues : StatusChange(v)
    \/ UpdateSelect
    \/ UpdateWait
    \/ \E dt \in DeltaTimes : UpdatePendulum(dt)
    \/ UpdateCBs
    \/ DrawRecord
    \/ DrawExecute
    \/ DrawStamp
    \/ DrawSignal
    \/ GpuExecuteList
    \/ GpuSignal

Spec == Init /\ [][Next]_vars

\* the same CPU thread with no angle override requested, and the GPU followed
\* through every command of every list on the observed pixel
RasterNext ==
    \/ UpdateSelect
    \/ UpdateWait
    \/ \E dt \in DeltaTimes : UpdatePendulum(dt)
    \/ UpdateCBs
    \/ DrawRecord
    \/ DrawExecute
    \/ DrawStamp
    \/ DrawSignal
    \/ GpuClear
    \/ \E frags \in FragmentSeqs : GpuDraw(frags)
    \/ GpuSignal

\* the fence value the start-up left does not reach the rasteriser: one start
RasterInit == Init /\ mCurrentFence = 0

RasterSpec == RasterInit /\ [][RasterNext]_vars

\* one step of Initialize completes; after the last one Run starts
SetupStep ==
    /\ pc = "setup"
    /\ setupStep' = setupStep + 1
    /\ pc' = IF setupStep + 1 = Len(InitializeSteps) THEN "idle" ELSE "setup"
    /\ UNCHANGED <<frame, mCurrentFrameBufferIndex, mCurrentFrameBuffer, Fence,
                   mCurrentFence, completedValue, mCommandQueue, mCommandList,
                   bufferVars, sceneVars, pixel, cameraVars, historyVars,
                   caught, messageShown>>

\* a checked call of Initialize or of a tick fails: ThrowIfFailed throws
CheckedCallFails(call) ==
    /\ \/ /\ pc = "setup"
          /\ call = InitializeSteps[setupStep + 1]
          /\ call \in CheckedSetupSteps
       \/ /\ pc \in DOMAIN CheckedTickCalls
          /\ call \in CheckedTickCalls[pc]
    /\ caught' = call
    /\ pc' = PcAfterFailure(pc)
    /\ UNCHANGED <<frame, mCurrentFrameBufferIndex, mCurrentFrameBuffer, Fence,
                   mCurrentFence, completedValue, mCommandQueue, mCommandList,
                   bufferVars, sceneVars, pixel, cameraVars, historyVars,
                   setupStep, messageShown>>

\* Initialize lines 234-235: D3DApp::Initialize reports failure by its result,
\* Initialize returns false and WinMain returns 0 (lines 174-177)
InitializeReturnsFalse ==
    /\ pc = "setup"
    /\ setupStep = 0
    /\ pc' = "unwind"
    /\ UNCHANGED <<frame, mCurrentFrameBufferIndex, mCurrentFrameBuffer, Fence,
                   mCurrentFence, completedValue, mCommandQueue, mCommandList,
                   bufferVars, sceneVars, pixel, cameraVars, historyVars, appVars>>

\* Run returns between two ticks (WM_QUIT) and WinMain returns its result
RunReturns ==
    /\ pc = "idle"
    /\ pc' = "unwind"
    /\ UNCHANGED <<frame, mCurrentFrameBufferIndex, mCurrentFrameBuffer, Fence,
                   mCurrentFence, completedValue, mCommandQueue, mCommandList,
                   bufferVars, sceneVars, pixel, cameraVars, historyVars, appVars>>

\* thisApp goes out of scope: ~PendulumMotion flushes the command queue when
\* the device exists, i.e. returns once the GPU has consumed what was queued;
\* then the handler runs if something was thrown
Destructor ==
    /\ pc = "unwind"
    /\ (setupStep > 0) => FlushCommandQueueReturns(mCommandQueue)
    /\ pc' = IF caught # "none" THEN "catch" ELSE "exited"
    /\ UNCHANGED <<frame, mCurrentFrameBufferIndex, mCurrentFrameBuffer, Fence,
                   mCurrentFence, completedValue, mCommandQueue, mCommandList,
                   bufferVars, sceneVars, pixel, cameraVars, historyVars, appVars>>

\* WinMain lines 180-184: MessageBox, return 0
WinMainCatch ==
    /\ pc = "catch"
    /\ messageShown' = HandlerShowsMessage(caught)
    /\ pc' = "exited"
    /\ UNCHANGED <<frame, mCurrentFrameBufferIndex, mCurrentFrameBuffer, Fence,
                   mCurrentFence, completedValue, mCommandQueue, mCommandList,
                   bufferVars, sceneVars, pixel, cameraVars, historyVars,
                   setupStep, caught>>

\* EulerUpdate called on its own with a step size (frame counts the calls)
EulerStep(dt) ==
    /\ pc = "idle"
    /\ frame < MaxFrames
    /\ frame' = frame + 1
    /\ mSimplePend' = EulerUpdate(mSimplePend, mStatusChange, inheritValue1, dt)
    /\ mStatusChange' = FALSE
    /\ UNCHANGED <<pc, mCurrentFrameBufferIndex, mCurrentFrameBuffer, Fence,
                   mCurrentFence, completedValue, mCommandQueue, mCommandList,
                   bufferVars, World, numFrameBufferFill, NumFramesDirty, inheritValue1,
                   mCommonCB, mReflectedCommonCB, pixel, appVars, cameraVars, historyVars>>

\* the equation of motion alone: overrides and Euler steps of any size
EulerNext ==
    \/ \E v \in InheritValues : StatusChange(v)
    \/ \E dt \in EulerSteps : EulerStep(dt)

EulerSpec == RasterInit /\ [][EulerNext]_vars

\* WinMain from the construction of thisApp on, every checked call able to
\* fail. The scene data is shown from the start with the values Initialize
\* gives it.
FaultInit ==
    /\ pc = "setup"
    /\ setupStep = 0
    /\ InitialData
    /\ mCurrentFence = 0

FaultNext ==
    \/ SetupStep
    \/ \E call \in CheckedSetupSteps \cup UNION {CheckedTickCalls[k] : k \in DOMAIN CheckedTickCalls} :
          CheckedCallFails(call)
    \/ InitializeReturnsFalse
    \/ RunReturns
    \/ Destructor
    \/ WinMainCatch
    \/ UpdateSelect
    \/ UpdateWait
    \/ \E dt \in DeltaTimes : UpdatePendulum(dt)
    \/ UpdateCBs
    \/ DrawRecord
    \/ DrawExecute
    \/ DrawStamp
    \/ DrawSignal
    \/ GpuExecuteList
    \/ GpuSignal

FaultSpec == FaultInit /\ [][FaultNext]_vars

\* the steps of the CPU thread that follow from where it is: Initialize and
\* the ticks going on, a wait returning, unwinding and the handler (the
\* pendulum step of Update is in UpdatePendulumFair)
CpuStep ==
    \/ SetupStep
    \/ UpdateSelect
    \/ UpdateWait
    \/ UpdateCBs
    \/ DrawRecord
    \/ DrawExecute
    \/ DrawStamp
    \/ DrawSignal
    \/ Destructor
    \/ WinMainCatch

\* weak fairness of UpdatePendulum written out: the step is enabled exactly
\* when pc = "update" and it is the only CPU step that leaves that position,
\* so WF_vars(\E dt \in DeltaTimes : UpdatePendulum(dt)) says that the thread
\* is infinitely often somewhere else
UpdatePendulumFair == []<>(pc # "update")

\* the CPU thread always takes its next step when it has one (at most one of
\* the steps is enabled at a time)
CpuFairness == WF_vars(CpuStep) /\ UpdatePendulumFair

\* the same program with a GPU that may stop consuming the queue at any point
HangSpec == FaultInit /\ [][FaultNext]_vars /\ CpuFairness

\* the GPU executes whatever is at the head of the queue
GpuFairness == WF_vars(GpuExecuteList) /\ WF_vars(GpuSignal)

\* the ticks and the GPU of Spec; the angle override, which only changes
\* what a tick writes, is left out
LiveNext ==
    \/ UpdateSelect
    \/ UpdateWait
    \/ \E dt \in DeltaTimes : UpdatePendulum(dt)
    \/ UpdateCBs
    \/ DrawRecord
    \/ DrawExecute
    \/ DrawStamp
    \/ DrawSignal
    \/ GpuExecuteList
    \/ GpuSignal

\* a CPU thread that keeps running and a GPU that completes every submitted
\* command list and signal
LiveSpec == Init /\ [][LiveNext]_vars /\ CpuFairness /\ GpuFairness

\* the window procedure alone: mouse messages in any order
CameraNext ==
    \/ \E x \in MouseCoordinates, y \in MouseCoordinates : OnMouseDown(x, y)
    \/ \E b \in ButtonStates, x \in MouseCoordinates, y \in MouseCoordinates : OnMouseMove(b, x, y)

CameraSpec == RasterInit /\ [][CameraNext]_vars

\* ============================================================== claims
\* the slot a tick uses: the cursor starts at 0 and advances before use
SlotOfTick(k) == k % gNumFrameBuffers

\* ticks whose constant-buffer updates are complete
TicksUpdated == IF pc \in {"wait", "update", "fill"} THEN frame - 1 ELSE frame

\* ticks whose slot has been stamped
TicksStamped == IF pc \in {"signal", "idle"} THEN frame ELSE frame - 1

\* a command list recorded against slot s is still in the queue
InFlight(s) ==
    \E i \in 1 .. Len(mCommandQueue) :
        mCommandQueue[i].kind = "list" /\ mCommandQueue[i].slot = s

\* C1: once Update has selected the slot (cursor advanced, wait done if one was
\* needed) and until Draw stamps it again, the slot's Fence is 0 or at most the
\* completed fence value.
C1_SelectedSlotCompleted ==
    pc \in {"update", "fill", "draw", "execute", "stamp"} =>
        \/ Fence[mCurrentFrameBuffer] = 0
        \/ Fence[mCurrentFrameBuffer] <= completedValue

\* a reused slot has been selected while the GPU still has later work queued
C1_Witness ==
    /\ pc = "update"
    /\ Fence[mCurrentFrameBuffer] # 0
    /\ Fence[mCurrentFrameBuffer] = completedValue
    /\ mCommandQueue # <<>>

\* C2: while the CPU is about to write the slot's constant buffers or to reset
\* its allocator, no command list recorded against that slot is still in the
\* queue, and no two queued command lists were recorded against the same slot.
C2_NoWriteWhileInFlight ==
    /\ pc \in {"update", "fill", "draw"} => ~InFlight(mCurrentFrameBuffer)
    /\ \A i, j \in 1 .. Len(mCommandQueue) :
          (i # j /\ mCommandQueue[i].kind = "list" /\ mCommandQueue[j].kind = "list")
              => mCommandQueue[i].slot # mCommandQueue[j].slot

\* the CPU writes a reused slot while lists of the two other slots are queued
C2_Witness ==
    /\ pc = "fill"
    /\ frame > gNumFrameBuffers
    /\ Cardinality({i \in 1 .. Len(mCommandQueue) : mCommandQueue[i].kind = "list"}) = 2

\* the tick that counts as the last change of an item: construction counts as
\* a change seen by the first tick
LastChange(it) == IF changedAt[it] = 0 THEN 1 ELSE changedAt[it]

HoldsLatestObject(s, it) ==
    ObjectCB[s][ObjCBIndex[it]] = [World |-> XMMatrixTranspose(World[it])]

HoldsLatestMaterial(s, m) == MaterialCB[s][MatCBIndex[m]] = MaterialConstantsOf(m)

\* C3: once a tick has done its updates, the slot it is about to submit holds
\* the current value of every item and material, and an item (material) whose
\* value last changed on tick T is current in all N slots from the end of tick
\* T+N-1 on.
C3_ChangeReachesEverySlot ==
    /\ pc \in {"draw", "execute"} =>
          /\ \A it \in ItemNames : HoldsLatestObject(mCurrentFrameBuffer, it)
          /\ \A m \in MaterialNames : HoldsLatestMaterial(mCurrentFrameBuffer, m)
    /\ \A it \in ItemNames :
          TicksUpdated >= LastChange(it) + gNumFrameBuffers - 1
              => \A s \in Slots : HoldsLatestObject(s, it)
    /\ TicksUpdated >= gNumFrameBuffers
          => \A m \in MaterialNames : \A s \in Slots : HoldsLatestMaterial(s, m)

\* the wire moved on tick 2 for the last time and tick 4 has completed the ring
C3_Witness ==
    /\ changedAt["wire"] = 2
    /\ TicksUpdated = 2 + gNumFrameBuffers - 1
    /\ \A s \in Slots : HoldsLatestObject(s, "wire")
    /\ World["wire"] # InitWorld["wire"]

\* completed ticks counted from the tick of an item's last change
TicksSinceChange(it) ==
    IF TicksUpdated >= LastChange(it) THEN TicksUpdated - LastChange(it) + 1 ELSE 0

\* C4: an item whose world transform last changed on tick T is written once per
\* slot on ticks T .. T+N-1, its numFrameBufferFill goes down by one per write
\* and is 0 after N ticks, and it is skipped from then on; an item that never
\* changed is copied N times in all.
C4_WrittenOncePerSlotThenSkipped ==
    pc # "fill" =>
        \A it \in ItemNames :
            /\ numFrameBufferFill[it] =
                   IF TicksSinceChange(it) >= gNumFrameBuffers THEN 0
                   ELSE gNumFrameBuffers - TicksSinceChange(it)
            /\ changedAt[it] = 0 =>
                   objCopies[it] = IF TicksUpdated >= gNumFrameBuffers
                                   THEN gNumFrameBuffers ELSE TicksUpdated

\* C5: every numFrameBufferFill and every NumFramesDirty lies in 0 .. N, and
\* right after UpdateReflectedAndShadowed the wire and ball items and their
\* reflected and shadow variants, and every item whose world just changed,
\* have numFrameBufferFill = N.
C5_CountersInRange ==
    /\ \A it \in ItemNames : numFrameBufferFill[it] \in 0 .. gNumFrameBuffers
    /\ \A m \in MaterialNames : NumFramesDirty[m] \in 0 .. gNumFrameBuffers
    /\ pc = "fill" =>
          \A it \in ItemNames :
              (it \in RearmedItems \/ changedAt[it] = frame)
                  => numFrameBufferFill[it] = gNumFrameBuffers

\* the ball has just moved on a tick after the materials went clean
C5_Witness ==
    /\ pc = "fill"
    /\ frame > gNumFrameBuffers
    /\ changedAt["ball"] = frame
    /\ numFrameBufferFill["ball"] = gNumFrameBuffers
    /\ \A m \in MaterialNames : NumFramesDirty[m] = 0

\* the slots stamped so far
StampedSlots == {SlotOfTick(k) : k \in 1 .. TicksStamped}

C6_StampInvariant ==
    /\ \A s \in Slots : (Fence[s] = 0) <=> (s \notin StampedSlots)
    /\ \A s, t \in Slots : (s # t /\ Fence[s] # 0 /\ Fence[t] # 0) => Fence[s] # Fence[t]
    /\ \A s \in Slots : Fence[s] <= mCurrentFence
    /\ TicksStamped >= 1 => Fence[SlotOfTick(TicksStamped)] = mCurrentFence

C6_StampStep ==
    /\ (pc = "stamp" /\ pc' # "stamp") => mCurrentFence' = mCurrentFence + 1
    /\ (mCurrentFence' # mCurrentFence \/ Fence' # Fence) =>
          /\ pc = "stamp"
          /\ mCurrentFence' = mCurrentFence + 1
          /\ Fence' = [Fence EXCEPT ![mCurrentFrameBuffer] = mCurrentFence']
          /\ Fence'[mCurrentFrameBuffer] > Fence[mCurrentFrameBuffer]
          /\ \A s \in Slots : Fence'[s] >= Fence[s]

\* C6: each Draw adds exactly one to mCurrentFence and stores the new value in
\* the current slot's Fence and nowhere else; a slot's Fence never decreases
\* and strictly grows when it is stamped again; Fence is 0 exactly for the
\* slots never submitted; non-zero stamps of different slots differ; the slot
\* stamped last holds the largest stamp, which equals mCurrentFence.
C6_FenceStamps == []C6_StampInvariant /\ [][C6_StampStep]_vars

\* a slot has been stamped for the second time
C6_Witness ==
    /\ pc = "signal"
    /\ TicksStamped > gNumFrameBuffers
    /\ Fence[mCurrentFrameBuffer] = mCurrentFence
    /\ \A s \in Slots : Fence[s] # 0 /\ (s # mCurrentFrameBuffer => Fence[s] < mCurrentFence)

\* the draw calls of a recorded list
DrawsOf(cmds) == SelectSeq(cmds, LAMBDA c : c.op = "Draw")

\* the passes of a list: the (layer, pipeline state) of its draw calls with
\* runs of equal neighbours taken once
RECURSIVE PassesOf(_)
PassesOf(draws) ==
    IF draws = <<>> THEN <<>>
    ELSE LET rest == PassesOf(Tail(draws))
             p == <<Head(draws).layer, Head(draws).pso>>
         IN  IF rest # <<>> /\ rest[1] = p THEN rest ELSE <<p>> \o rest

FivePasses ==
    << <<"Opaque", "opaque">>, <<"Mirrors", "markStencilMirror">>,
       <<"Reflected", "drawStencilReflections">>, <<"Transparent", "transparent">>,
       <<"Shadow", "shadow">> >>

\* the complete lists that exist: the one just recorded and those queued whole
RecordedLists ==
    (IF pc \in {"execute", "stamp", "signal"}
     THEN {[slot |-> mCurrentFrameBuffer, cmds |-> mCommandList]} ELSE {})
    \cup {[slot |-> mCommandQueue[i].slot, cmds |-> mCommandQueue[i].cmds] :
            i \in {j \in 1 .. Len(mCommandQueue) : mCommandQueue[j].kind = "list"}}

\* C7: every recorded frame consists of the five passes Opaque, Mirrors,
\* Reflected, Transparent, Shadow in this order, each once, each drawing all
\* items of its layer under its own pipeline state (opaque, markStencilMirror,
\* drawStencilReflections, transparent, shadow).
C7_FivePassesInOrder ==
    \A l \in RecordedLists :
        /\ PassesOf(DrawsOf(l.cmds)) = FivePasses
        /\ \A layer \in DOMAIN mRitemLayer :
              LET ds == SelectSeq(DrawsOf(l.cmds), LAMBDA c : c.layer = layer)
              IN  /\ Len(ds) = Len(mRitemLayer[layer])
                  /\ \A i \in 1 .. Len(ds) : ds[i].item = mRitemLayer[layer][i]

\* the fourth frame has been recorded while the third is still queued
C7_Witness ==
    /\ pc = "execute"
    /\ frame > gNumFrameBuffers
    /\ Cardinality(RecordedLists) = 2
    /\ PassesOf(DrawsOf(mCommandList)) = FivePasses

\* C8: in every recorded frame the draws of the Opaque, Mirrors, Transparent
\* and Shadow passes run with entry 0 (primary) of the common constants bound
\* and those of the Reflected pass with entry 1 (mirrored), always of the slot
\* the frame was recorded for.
C8_CommonBindingPerPass ==
    \A l \in RecordedLists :
        \A i \in 1 .. Len(l.cmds) :
            l.cmds[i].op = "Draw" =>
                l.cmds[i].commonCB =
                    <<l.slot, IF l.cmds[i].layer = "Reflected" THEN 1 ELSE 0>>

\* a recorded frame whose mirror draw follows the reflection with the primary
\* copy of its own slot bound again
C8_Witness ==
    /\ pc = "execute"
    /\ frame >= 2
    /\ \E i \in 2 .. Len(mCommandList) :
          /\ mCommandList[i].layer = "Transparent"
          /\ mCommandList[i].commonCB = <<mCurrentFrameBuffer, 0>>
          /\ mCommandList[i - 1].layer = "Reflected"
          /\ mCommandList[i - 1].commonCB = <<mCurrentFrameBuffer, 1>>

\* the stencil reference each layer is drawn with
LayerStencilRef == [Opaque |-> 0, Mirrors |-> 1, Reflected |-> 1, Transparent |-> 0, Shadow |-> 0]

\* C9: in every recorded frame, the first and the later ones alike, the
\* stencil reference is 0 for the Opaque draws, 1 for the Mirrors and Reflected
\* draws and 0 for the Transparent and Shadow draws.
C9_StencilRefPerPass ==
    \A l \in RecordedLists :
        \A i \in 1 .. Len(l.cmds) :
            l.cmds[i].op = "Draw" =>
                l.cmds[i].stencilRef = LayerStencilRef[l.cmds[i].layer]

\* a later frame starts its Opaque pass with reference 0 although the frame
\* queued before it used reference 1
C9_Witness ==
    /\ pc = "stamp"
    /\ frame >= 2
    /\ Len(mCommandQueue) >= 3
    /\ LET n == Len(mCommandQueue)
       IN  /\ mCommandQueue[n].kind = "list"
           /\ mCommandQueue[n - 2].kind = "list"
           /\ \E i \in 1 .. Len(mCommandQueue[n - 2].cmds) :
                 mCommandQueue[n - 2].cmds[i].stencilRef = 1
           /\ DrawsOf(mCommandQueue[n].cmds)[1].layer = "Opaque"
           /\ DrawsOf(mCommandQueue[n].cmds)[1].stencilRef = 0

\* how many times the shadow colour has been blended onto the pixel
ShadowBlends == Cardinality({i \in 1 .. Len(pixel.color) : pixel.color[i] = "Shadow"})

\* a draw call of the Shadow pass as Draw records it
ShadowDraw == CHOOSE c \in {RecordFrame(0)[i] : i \in 1 .. Len(RecordFrame(0))} : c.layer = "Shadow"

\* C10: within a frame the pixel's stencil never exceeds 1 and the shadow
\* colour is blended onto it at most once however many Shadow fragments
\* arrive; a Shadow fragment that passes the depth test blends exactly when
\* the stencil is 0 and leaves it at 1; after two or more Shadow fragments of
\* which one was blended the stencil is exactly 1.
C10_ShadowBlendedOnce ==
    /\ pixel.stencil <= 1
    /\ ShadowBlends <= 1
    /\ (pixel.shadowFrags >= 2 /\ ShadowBlends >= 1) => (pixel.stencil = 1 /\ ShadowBlends = 1)
    /\ \A d \in 0 .. (MaxDepth - 1) :
          LET after == ProcessFragment(pixel, ShadowDraw, d)
          IN  IF pixel.stencil = 0 /\ d < pixel.depth
              THEN after.stencil = 1 /\ after.color = Append(pixel.color, "Shadow")
              ELSE after.stencil = pixel.stencil /\ after.color = pixel.color

\* two Shadow fragments have fallen on a floor pixel: one blend, stencil 1
C10_Witness ==
    /\ pixel.shadowFrags >= 2
    /\ pixel.color = <<"Opaque", "Shadow">>
    /\ pixel.stencil = 1

\* the draw calls of one layer as Draw records them
DrawsOfLayer(layer) == SelectSeq(RecordFrame(0), LAMBDA c : c.layer = layer)

\* the command the GPU executes next is a draw call of one of the layers
NextDrawIn(layers) ==
    /\ mCommandQueue # <<>>
    /\ mCommandQueue[1].kind = "list"
    /\ mCommandQueue[1].cmds[1].layer \in layers

\* C11: a Reflected fragment changes colour or depth only where the stencil is
\* 1 and never changes the stencil; a Mirrors fragment changes neither colour
\* nor depth; and while the Reflected pass runs the stencil is 1 exactly where
\* a Mirrors fragment of the same frame passed the depth test.
C11_ReflectionInsideMirrorMask ==
    /\ \A d \in 0 .. (MaxDepth - 1) :
          /\ LET after == ProcessFragment(pixel, DrawsOfLayer("Reflected")[1], d)
             IN  /\ after.stencil = pixel.stencil
                 /\ (after.color # pixel.color \/ after.depth # pixel.depth)
                        => pixel.stencil = 1
          /\ LET after == ProcessFragment(pixel, DrawsOfLayer("Mirrors")[1], d)
             IN  after.color = pixel.color /\ after.depth = pixel.depth
    /\ NextDrawIn({"Reflected", "Transparent"}) =>
          (pixel.stencil = 1 <=> pixel.mirrorMarked)
    /\ ("Reflected" \in {pixel.color[i] : i \in 1 .. Len(pixel.color)}) => pixel.mirrorMarked

\* a reflection has been drawn on a pixel the mirror marked in front of nothing
C11_Witness ==
    /\ pixel.color = <<"Reflected">>
    /\ pixel.stencil = 1
    /\ pixel.mirrorMarked
    /\ NextDrawIn({"Reflected"})

\* base item, Reflected-layer item and Shadow-layer item of each pendulum part
mCeilingRenderItem == <<"ceiling", "reflectedCeiling", "shadowedCeiling">>

PendulumParts == {mCeilingRenderItem, mWireRenderItem, mBallRenderItem}

MirrorReflection == XMMatrixReflect(<<0, 0, Scale, 0>>)

\* the planar shadow projection onto the floor for a light direction, followed
\* by the Y offset
ShadowProjection(lightDirection) ==
    MatMul(XMMatrixShadow(<<0, Scale, 0, 0>>,
                          <<0 - lightDirection[1], 0 - lightDirection[2],
                            0 - lightDirection[3], 0>>),
           XMMatrixTranslation(0, 10, 0))

\* the world matrices of a part's three items are base, base x reflection and
\* base x shadow projection x offset, for one of the light directions in use
PartVariantsTransformed(part) ==
    /\ World[part[2]] = MatMul(World[part[1]], MirrorReflection)
    /\ \E l \in {DefaultLightDirection, SceneLightDirections[1]} :
          World[part[3]] = MatMul(World[part[1]], ShadowProjection(l))
    /\ World[part[2]] # World[part[1]]
    /\ World[part[3]] # World[part[1]]

\* C12: at every submission the Reflected-layer item of the ceiling, the wire
\* and the ball holds the base item's world matrix times the mirror
\* reflection, the Shadow-layer item holds it times the shadow projection
\* times the Y offset, and neither holds the base item's unmodified matrix.
C12_VariantsTransformed ==
    pc = "execute" => \A part \in PendulumParts : PartVariantsTransformed(part)

\* the shadow items of the wire and the ball hold the projection for the
\* direction of light 0 stored in common constants c
ShadowsFollowLight(c) ==
    /\ World[mWireRenderItem[3]] = MatMul(World[mWireRenderItem[1]], ShadowProjection(c.Lights[1]))
    /\ World[mBallRenderItem[3]] = MatMul(World[mBallRenderItem[1]], ShadowProjection(c.Lights[1]))

\* C13: on every tick, the first included, once the tick has done its updates
\* the shadow items' world matrices are the projection for the direction of
\* light 0 that this tick wrote into the common constants of the slot it
\* submits.
C13_ShadowFromSubmittedLight ==
    pc \in {"draw", "execute"} =>
        /\ CommonCB[mCurrentFrameBuffer][0] = mCommonCB
        /\ ShadowsFollowLight(CommonCB[mCurrentFrameBuffer][0])

\* C14: in every state, whatever mouse moves happened with whatever buttons
\* and deltas, mPhi lies in [pi/6, pi/2 - 0.1], mRadius in [15, 50] and mTheta
\* in [7pi/6, 11pi/6], an arc of 120 degrees.
C14_CameraWithinBounds ==
    /\ PhiMin <= mPhi /\ mPhi <= PhiMax
    /\ RadiusMin <= mRadius /\ mRadius <= RadiusMax
    /\ ThetaMin <= mTheta /\ mTheta <= ThetaMax
    /\ (ThetaMax - ThetaMin) * 3 \in (2 * Pi - 3) .. (2 * Pi + 3)

\* drags far beyond the ranges have left the three coordinates pinned at bounds
C14_Witness ==
    /\ mPhi = PhiMax
    /\ mTheta = ThetaMin
    /\ mRadius = RadiusMax
    /\ mLastMousePos.assigned

AtRest == [theta |-> 0, omega |-> 0]

\* an Euler step taken at rest with no override pending leaves the pendulum at rest
C15_StepFromRest ==
    (mSimplePend = AtRest /\ ~mStatusChange /\ frame' = frame + 1) => mSimplePend' = AtRest

\* C15: (theta, omega) = (0, 0) is a fixed point of EulerUpdate for every step
\* size: the constructor's state is at rest, and a step taken at rest with no
\* status change pending ends at rest, so any number of steps leaves both at 0.
C15_RestIsFixedPoint ==
    /\ [](\A dt \in EulerSteps : EulerUpdate(AtRest, FALSE, inheritValue1, dt) = AtRest)
    /\ [](frame = 0 => mSimplePend = AtRest)
    /\ [][C15_StepFromRest]_vars

\* the largest number of steps has been taken from the constructor's state
C15_Witness ==
    /\ frame = MaxFrames
    /\ mSimplePend = AtRest
    /\ inheritValue1 = 0
    /\ ~mStatusChange

FailureStates == {"unwind", "catch", "exited"}

C16_FailureState ==
    /\ caught # "none" => pc \in FailureStates
    /\ (pc = "exited" /\ caught # "none") => messageShown
    /\ messageShown => (pc = "exited" /\ caught # "none")

\* after a failure no step of Initialize or of a tick runs and nothing is
\* submitted or tried again: only the unwinding and the handler move on
C16_FailureStep ==
    caught # "none" =>
        /\ UNCHANGED <<frame, mCurrentFrameBufferIndex, mCurrentFrameBuffer, Fence,
                       mCurrentFence, mCommandList, bufferVars, sceneVars, setupStep, caught>>
        /\ Len(mCommandQueue') <= Len(mCommandQueue)
        /\ <<pc, pc'>> \in {<<"unwind", "unwind">>, <<"unwind", "catch">>,
                            <<"catch", "exited">>, <<"exited", "exited">>}

C17_HangSurfacedAsFatal ==
    (pc = "wait") ~> (pc = "update" \/ pc \in FailureStates)

\* the Signal carrying the stamp of the selected slot is on the queue, or the
\* GPU has already executed it
WaitedSignalEnqueued ==
    \/ completedValue >= Fence[mCurrentFrameBuffer]
    \/ \E i \in DOMAIN mCommandQueue :
           /\ mCommandQueue[i].kind = "signal"
           /\ mCommandQueue[i].value = Fence[mCurrentFrameBuffer]

\* C18: with a GPU that eventually completes every submitted list and signal,
\* the value a ring-wrap wait waits on is always a stamp whose Signal is
\* already on the queue (or executed), every wait returns, and the CPU goes on
\* to complete every tick the bound allows: producer and consumer never
\* deadlock.
C18_WaitsTerminate ==
    /\ [](pc = "wait" => WaitedSignalEnqueued)
    /\ ((pc = "wait") ~> (pc = "update"))
    /\ <>(frame = MaxFrames /\ pc = "idle")

\* the CPU is blocked in the wait while the Signal it waits for is queued
C18_Witness ==
    /\ pc = "wait"
    /\ completedValue < Fence[mCurrentFrameBuffer]
    /\ WaitedSignalEnqueued

\* ticks whose command list has been handed to ExecuteCommandLists
TicksSubmitted == IF pc \in {"stamp", "signal", "idle"} THEN frame ELSE frame - 1

\* the fence value tick k stamps its slot with: one more per tick, counted
\* from the value the start-up left in mCurrentFence
StampOfTick(k) == (mCurrentFence - TicksStamped) + k

\* submitted frames the GPU has not completed: the fence has not reached
\* their stamp
UncompletedFrames ==
    Cardinality({k \in 1 .. TicksSubmitted : StampOfTick(k) > completedValue})

\* C19: while the CPU writes the selected slot's buffers or records its
\* commands, at most gNumFrameBuffers - 1 submitted frames are un-completed by
\* the GPU; in every state at most gNumFrameBuffers are.
C19_BoundedLookAhead ==
    /\ pc \in {"update", "fill", "draw"} => UncompletedFrames <= gNumFrameBuffers - 1
    /\ UncompletedFrames <= gNumFrameBuffers

\* the CPU fills a slot while the two other slots' frames are un-completed
C19_Witness ==
    /\ pc = "fill"
    /\ UncompletedFrames = gNumFrameBuffers - 1

\* slots some tick has run its constant-buffer updates on
WrittenSlots == {SlotOfTick(k) : k \in 1 .. TicksUpdated}

\* the indices CopyData is called with: ObjCBIndex of every render item,
\* MatCBIndex of every material, 0 and 1 for the two common blocks
IndicesDistinct ==
    /\ \A a, b \in ItemNames : a # b => ObjCBIndex[a] # ObjCBIndex[b]
    /\ \A a, b \in MaterialNames : a # b => MatCBIndex[a] # MatCBIndex[b]

\* every index is below the capacity SetFrameBuffers gave the buffer, in every
\* slot
IndicesWithinCapacity ==
    \A s \in Slots :
        /\ \A it \in ItemNames : ObjCBIndex[it] \in DOMAIN ObjectCB[s]
        /\ DOMAIN ObjectCB[s] = 0 .. (Cardinality(ItemNames) - 1)
        /\ \A m \in MaterialNames : MatCBIndex[m] \in DOMAIN MaterialCB[s]
        /\ DOMAIN MaterialCB[s] = 0 .. (Cardinality(MaterialNames) - 1)
        /\ DOMAIN CommonCB[s] = 0 .. 1

\* a slot a tick has written holds an entry of its own for every item, every
\* material and both common blocks: no entry was left out or written twice
EveryIndexWritten(s) ==
    /\ \A it \in ItemNames : ObjectCB[s][ObjCBIndex[it]] # UnwrittenObject
    /\ \A m \in MaterialNames : MaterialCB[s][MatCBIndex[m]] = MaterialConstantsOf(m)
    /\ \A i \in 0 .. 1 : CommonCB[s][i] # UnwrittenCommon

\* C20: the object indices of the render items are pairwise distinct and so
\* are the material indices; every index is below the capacity of its buffer
\* in every slot (objects: number of items, materials: number of materials,
\* common: 2); and the copies of every tick land on these indices, the same in
\* every slot.
C20_IndicesDistinctInRange ==
    /\ IndicesDistinct
    /\ IndicesWithinCapacity
    /\ \A s \in WrittenSlots : EveryIndexWritten(s)

\* all three slots have been written by a tick
C20_Witness ==
    /\ WrittenSlots = Slots
    /\ \A s \in Slots : EveryIndexWritten(s)
    /\ pc = "idle"

\* the positions of the CPU thread within a tick, in the order of the
\* statements of Update and Draw
TickOrder ==
    {<<"idle", "wait">>, <<"idle", "update">>, <<"wait", "update">>,
     <<"update", "fill">>, <<"fill", "draw">>, <<"draw", "execute">>,
     <<"execute", "stamp">>, <<"stamp", "signal">>, <<"signal", "idle">>}

\* the last element of the queue after a step that appended to it
Appended(kind) ==
    /\ Len(mCommandQueue') = Len(mCommandQueue) + 1
    /\ mCommandQueue'[Len(mCommandQueue')].kind = kind

\* one step of the program seen as a step of a tick
C21_Step ==
    /\ pc' # pc => <<pc, pc'>> \in TickOrder
    /\ mCurrentFrameBufferIndex' # mCurrentFrameBufferIndex => pc = "idle"
    /\ bufferVars' # bufferVars => pc = "fill" /\ pc' = "draw"
    /\ mCommandList' # mCommandList => pc = "draw" /\ pc' = "execute"
    /\ Appended("list") => pc = "execute" /\ pc' = "stamp"
    /\ (Fence' # Fence \/ mCurrentFence' # mCurrentFence) =>
           /\ pc = "stamp" /\ pc' = "signal"
           /\ mCurrentFence' = mCurrentFence + 1
           /\ Fence'[mCurrentFrameBuffer] = mCurrentFence'
    /\ Appended("signal") =>
           /\ pc = "signal" /\ pc' = "idle"
           /\ mCommandQueue'[Len(mCommandQueue')].value = mCurrentFence

\* a Signal on the queue is behind the command list of its tick, unless the
\* GPU has already taken that list off the queue
SignalBehindItsList ==
    \A i \in DOMAIN mCommandQueue :
        mCommandQueue[i].kind = "signal" =>
            i = 1 \/ mCommandQueue[i - 1].kind = "list"

\* C21: within a tick the CPU selects the slot (waiting if needed), writes the
\* slot's buffers, records, submits the list, stamps the slot with the
\* incremented fence value and enqueues the Signal of that value, in this
\* order; buffers are written only between the selection and the recording,
\* and no Signal is on the queue ahead of the list it covers.
C21_TickStepsInOrder ==
    /\ [][C21_Step]_vars
    /\ [](SignalBehindItsList /\ Len(mCommandQueue) <= 2 * frame)

\* a tick is over with its list and its Signal both still on the queue
C21_Witness ==
    /\ pc = "idle"
    /\ frame >= 2
    /\ Len(mCommandQueue) = 2 * frame

\* a position or direction mirrored across the mirror plane z = 0
MirroredAcrossMirror(v) == XMVector3TransformNormal(v, XMMatrixReflect(<<0, 0, Scale, 0>>))

\* the slot's mirrored copy has the light directions of the primary copy,
\* mirrored
LightsMirrored(s) ==
    \A i \in 1 .. 3 :
        CommonCB[s][1].Lights[i] = MirroredAcrossMirror(CommonCB[s][0].Lights[i])

\* the slot's mirrored copy has the camera position of the primary copy,
\* mirrored
CameraMirrored(s) ==
    CommonCB[s][1].CameraPosW = MirroredAcrossMirror(CommonCB[s][0].CameraPosW)

\* C22: after the update of a tick, entry 1 of the selected slot's common
\* buffer is entry 0 of the same tick with the camera position and the light
\* directions mirrored across the mirror plane.
C22_MirroredCommonCopy ==
    pc \in {"draw", "execute", "stamp", "signal"} =>
        /\ LightsMirrored(mCurrentFrameBuffer)
        /\ CameraMirrored(mCurrentFrameBuffer)

\* x is within tol of target
Near(x, target, tol) == Abs(x - target) <= tol

\* the pendulum of the scenario: theta = pi/3, omega = 0
ScenarioStart == [theta |-> Pi \div 3, omega |-> 0]

\* an EulerUpdate with dt = 0.01 taken from the scenario's start with no
\* status change pending
ScenarioStep == mSimplePend = ScenarioStart /\ ~mStatusChange /\ EulerStep(100)

\* C23 as stated: the step ends with an angular speed of about -0.0849 rad/s
\* and an angle of about pi/3 - 0.000849 rad.
C23_ScenarioAsStated ==
    [][ScenarioStep =>
           /\ Near(mSimplePend'.omega, 0 - 849, 5)
           /\ Near(mSimplePend'.theta, (Pi \div 3) - 8, 1)]_vars

\* C23 amended: with wire length 3 the step ends with an angular speed of
\* about -0.01 * (9.8 / 3) * sin(pi/3) = -0.0283 rad/s and an angle of about
\* pi/3 - 0.000283 rad, the angle being advanced with the new angular speed.
C23_ScenarioFromCode ==
    [][ScenarioStep =>
           /\ Near(mSimplePend'.omega, 0 - 283, 5)
           /\ Near(mSimplePend'.theta, (Pi \div 3) - 3, 1)
           /\ mSimplePend'.theta = ScenarioStart.theta + MulFx(100, mSimplePend'.omega)]_vars

\* the scenario's step has been taken
C23_Witness ==
    /\ frame >= 2
    /\ ~mStatusChange
    /\ Near(mSimplePend.omega, 0 - 283, 5)
    /\ mSimplePend.theta < Pi \div 3
    /\ Near(mSimplePend.theta, (Pi \div 3) - 3, 1)

\* the world matrix reflected twice across the mirror plane
ReflectedTwice(W) == MatMul(MatMul(W, MirrorReflection), MirrorReflection)

\* the pendulum parts whose Reflected-layer item gets its world matrix by a
\* reflection (UpdateReflectedAndShadowed lines 468 and 488)
ReflectedParts == {mWireRenderItem, mBallRenderItem}

\* C24: the reflection across the mirror plane (normal (0,0,1), offset 0) is
\* involutive: twice applied to the world matrix of any item it gives the
\* matrix back, and the world matrix of a reflected item, reflected again, is
\* its base item's world matrix.
C24_ReflectionInvolutive ==
    /\ MatMul(MirrorReflection, MirrorReflection) = Identity4x4
    /\ \A it \in ItemNames : ReflectedTwice(World[it]) = World[it]
    /\ pc \in {"fill", "draw", "execute"} =>
           \A part \in ReflectedParts :
               MatMul(World[part[2]], MirrorReflection) = World[part[1]]

\* the pendulum hangs off the vertical, its reflected wire differs from the
\* wire and reflects back onto it
C24_Witness ==
    /\ pc = "draw"
    /\ mSimplePend.theta # 0
    /\ World[mWireRenderItem[2]] # World[mWireRenderItem[1]]
    /\ MatMul(World[mWireRenderItem[2]], MirrorReflection) = World[mWireRenderItem[1]]
    /\ ReflectedTwice(World[mBallRenderItem[1]]) = World[mBallRenderItem[1]]

\* the smaller of two numbers
Min(a, b) == IF a < b THEN a ELSE b

\* where the materials stand after the updates of TicksUpdated ticks: one copy
\* and one decrement per tick up to gNumFrameBuffers, the slots of those ticks
\* holding the constants and the other slots nothing
C25_MaterialState ==
    pc # "fill" =>
        \A m \in MaterialNames :
            /\ matCopies[m] = Min(TicksUpdated, gNumFrameBuffers)
            /\ NumFramesDirty[m] = gNumFrameBuffers - matCopies[m]
            /\ \A s \in Slots :
                   MaterialCB[s][MatCBIndex[m]] =
                       IF s \in WrittenSlots THEN MaterialConstantsOf(m) ELSE UnwrittenMaterial

\* a step that changes a material entry is the update of one of the first
\* gNumFrameBuffers ticks, writes the selected slot only, and writes an entry
\* that was not written before
C25_MaterialStep ==
    MaterialCB' # MaterialCB =>
        /\ pc = "fill"
        /\ frame <= gNumFrameBuffers
        /\ \A s \in Slots : s # mCurrentFrameBuffer => MaterialCB'[s] = MaterialCB[s]
        /\ \A m \in MaterialNames :
               /\ MaterialCB[mCurrentFrameBuffer][MatCBIndex[m]] = UnwrittenMaterial
               /\ NumFramesDirty'[m] = NumFramesDirty[m] - 1

\* C25: the constants of every material are written into each of the N slots
\* exactly once, on the first N ticks; NumFramesDirty goes down by one on each
\* of these writes and is 0 from tick N+1 on; no material entry of any slot is
\* written again afterwards.
C25_MaterialsWrittenOncePerSlot ==
    /\ []C25_MaterialState
    /\ [][C25_MaterialStep]_vars
    /\ [][frame > gNumFrameBuffers => (MaterialCB' = MaterialCB /\ matCopies' = matCopies)]_vars

\* a tick after the first N has done its update and left the materials alone
C25_Witness ==
    /\ frame = gNumFrameBuffers + 1
    /\ pc = "draw"
    /\ \A m \in MaterialNames : NumFramesDirty[m] = 0 /\ matCopies[m] = gNumFrameBuffers
    /\ \A s \in Slots : \A m \in MaterialNames : HoldsLatestMaterial(s, m)

\* the cursor is the slot of the tick in progress (or of the last tick), and
\* the slot pointer follows it from the first Update on
C26_CursorState ==
    /\ mCurrentFrameBufferIndex \in Slots
    /\ mCurrentFrameBufferIndex = SlotOfTick(frame)
    /\ mCurrentFrameBuffer = IF frame = 0 THEN 0 - 1 ELSE mCurrentFrameBufferIndex
    /\ \A j, k \in 1 .. frame :
           (j < k /\ k - j < gNumFrameBuffers) => SlotOfTick(j) # SlotOfTick(k)
    /\ \A k \in 1 .. frame :
           k > gNumFrameBuffers => SlotOfTick(k) = SlotOfTick(k - gNumFrameBuffers)

\* the cursor and the slot pointer move only when a tick starts, and then the
\* cursor moves by one modulo the ring depth
C26_CursorStep ==
    (\/ mCurrentFrameBufferIndex' # mCurrentFrameBufferIndex
     \/ mCurrentFrameBuffer' # mCurrentFrameBuffer
     \/ frame' # frame) =>
        /\ pc = "idle"
        /\ frame' = frame + 1
        /\ mCurrentFrameBufferIndex' = (mCurrentFrameBufferIndex + 1) % gNumFrameBuffers
        /\ mCurrentFrameBufferIndex' # mCurrentFrameBufferIndex
        /\ mCurrentFrameBuffer' = mCurrentFrameBufferIndex'

\* C26: the ring cursor is in 0 .. N-1 in every reachable state and advances
\* by exactly one modulo N per Update, so N consecutive ticks use N distinct
\* slots and the slot of tick k is used next on tick k+N; the slot pointer is
\* the slot of the cursor from the first Update on.
C26_CursorAdvancesModN ==
    /\ []C26_CursorState
    /\ [][C26_CursorStep]_vars

\* the ring has wrapped: tick N+1 is on the slot of tick 1
C26_Witness ==
    /\ frame = gNumFrameBuffers + 1
    /\ pc = "update"
    /\ mCurrentFrameBufferIndex = SlotOfTick(1)
    /\ mCurrentFrameBuffer = mCurrentFrameBufferIndex

\* the CPU thread cannot go on until the GPU acts: the only step of a tick
\* whose guard looks at the GPU is the return from the wait
Blocked == pc = "wait" /\ completedValue < Fence[mCurrentFrameBuffer]

\* the CPU is in the wait only after the first gNumFrameBuffers ticks and on a
\* stamped slot
C27_WaitState ==
    pc = "wait" => (frame > gNumFrameBuffers /\ Fence[mCurrentFrameBuffer] # 0)

\* at the other positions of a tick the next step of the CPU can be taken
\* whatever the GPU has done (the pendulum step at "update" has no guard but
\* the position), and a wait whose stamp is completed returns
C27_GoesOnElsewhere ==
    /\ pc = "idle" /\ frame < MaxFrames => ENABLED UpdateSelect
    /\ pc = "wait" /\ ~Blocked => ENABLED UpdateWait
    /\ pc = "fill" => ENABLED UpdateCBs
    /\ pc = "draw" => ENABLED DrawRecord
    /\ pc = "execute" => ENABLED DrawExecute
    /\ pc = "stamp" => ENABLED DrawStamp
    /\ pc = "signal" => ENABLED DrawSignal
    /\ Blocked => ~ENABLED UpdateWait

\* the wait is entered only from the slot selection and only when the selected
\* slot's stamp is non-zero and above the completed value; a selection that
\* finds the stamp 0 or completed goes straight on to the updates
C27_SelectStep ==
    /\ (pc' = "wait" /\ pc # "wait") =>
           /\ pc = "idle"
           /\ frame' = frame + 1
           /\ Fence[mCurrentFrameBuffer'] # 0
           /\ completedValue < Fence[mCurrentFrameBuffer']
    /\ (pc = "idle" /\ frame' = frame + 1
           /\ (Fence[mCurrentFrameBuffer'] = 0 \/ completedValue >= Fence[mCurrentFrameBuffer']))
           => pc' = "update"
    /\ (pc = "idle" /\ frame' = frame + 1 /\ frame' <= gNumFrameBuffers) => pc' = "update"

IntegrationStep(p, dt) ==
    LET om == p.omega - MulFx(MulFx(dt, DivFx(gravConst, wLength)), Sinf(p.theta))
    IN  [theta |-> p.theta + MulFx(dt, om), omega |-> om]

\* the pendulum an override to v degrees starts the integration from
Overridden(v) == [theta |-> (v * Pi) \div 180, omega |-> 0]

\* one step of the program seen from the status-change flag
C28_Step ==
    /\ frame' = frame + 1 =>
           /\ ~mStatusChange'
           /\ \E dt \in EulerSteps :
                  mSimplePend' = IntegrationStep(IF mStatusChange THEN Overridden(inheritValue1)
                                                 ELSE mSimplePend, dt)
    /\ frame' = frame =>
           /\ mSimplePend' = mSimplePend
           /\ mStatusChange => mStatusChange'

\* C28: an EulerUpdate that finds the status-change flag set replaces the
\* angle by the pending override converted from degrees to radians and resets
\* the angular speed to 0 before it integrates, and clears the flag; after
\* every EulerUpdate the flag is false; an EulerUpdate that finds the flag
\* unset integrates from the pendulum as it is.
C28_FlagConsumedOnce == [][C28_Step]_vars

\* an override to 60 degrees has just been applied by a step of size 0, with
\* the pendulum moving before it
C28_Witness ==
    /\ frame >= 2
    /\ ~mStatusChange
    /\ inheritValue1 = 60
    /\ mSimplePend = Overridden(60)

\* what an OnMouseMove with button state b may change
C29_Effect(b) ==
    /\ "MK_LBUTTON" \in b => mRadius' = mRadius
    /\ b = {"MK_RBUTTON"} => (mTheta' = mTheta /\ mPhi' = mPhi)
    /\ b = {} => (mTheta' = mTheta /\ mPhi' = mPhi /\ mRadius' = mRadius)

\* a step that is an OnMouseMove for the position it leaves in mLastMousePos
\* changes the camera coordinates its button state selects and nothing but
\* the camera and the last position
C29_Step ==
    \A b \in ButtonStates :
        OnMouseMove(b, mLastMousePos'.x, mLastMousePos'.y) =>
            /\ C29_Effect(b)
            /\ mLastMousePos'.assigned
            /\ UNCHANGED <<pc, frame, sceneVars, bufferVars, Fence, mCommandQueue>>

\* C29: OnMouseMove with the left button held (alone or with the right one)
\* changes only the two camera angles; with only the right button held only
\* the radius; with no button held no camera coordinate; in every case the
\* last mouse position becomes the position of the event.
C29_MouseMoveFrame ==
    /\ [][C29_Step]_vars
    /\ [][\A b \in ButtonStates, x, y \in MouseCoordinates :
              OnMouseMove(b, x, y) =>
                  mLastMousePos' = [assigned |-> TRUE, x |-> x, y |-> y]]_vars

\* both kinds of drag have acted: the angles and the radius have left the
\* constructor's values
C29_Witness ==
    /\ mLastMousePos.assigned
    /\ mTheta # (3 * Pi) \div 2
    /\ mPhi # (4 * Pi) \div 10
    /\ mRadius # 20 * Scale
    /\ mRadius < RadiusMax
====
